---- MODULE Spec2Model ----
(***************************************************************************)
(* Model of the EditorBugStep component (ReportStepMessage.vue): the       *)
(* category -> colour mapping of its computed properties, the conditional  *)
(* rendering of its navigation buttons and the two click handlers that     *)
(* emit on the shared event bus.                                           *)
(***************************************************************************)
EXTENDS Naturals, Sequences, FiniteSets

(* ---------------------------- JavaScript values ------------------------ *)
\* Values are tagged so that null, strings, numbers and objects stay distinct
\* under strict equality (===).
Null == <<"null">>
Str(s) == <<"String", s>>
Num(n) == <<"Number", n>>
Obj(o) == <<"Object", o>>

\* ToBoolean of a prop value: null and "" are falsy, objects are truthy.
Truthy(v) == v /= Null /\ v /= Str("")

(* ------------------------------- bounds -------------------------------- *)
\* Longest sequence of handler invocations that is explored.
MaxClicks == 2

\* Two component instances of one trace: "a" shows step s1, "b" shows step s2.
Instances == {"a", "b"}

\* Values of the "type" prop: the four known categories, a differently cased
\* name, the empty string, an unknown string, and the default null.
Types ==
  {Null, Str("error"), Str("fixit"), Str("macro"), Str("note"),
   Str("Error"), Str(""), Str("unspecified-garbage")}

\* The one event bus object the parent may hand to the instances.
Bus == Obj("bus")

\* The step objects the parent may hand over as neighbours of each instance.
PrevOf(i) == IF i = "a" THEN Obj("s0") ELSE Obj("s1")
NextOf(i) == IF i = "a" THEN Obj("s2") ELSE Obj("s3")

\* Props without logic attached (id, value, marginLeft, index); they differ
\* between the instances and use both types the declarations allow.
IdOf(i) == IF i = "a" THEN Str("s1") ELSE Num(2)
ValueOf(i) == IF i = "a" THEN Str("Null pointer dereference") ELSE Str("Assuming x is 0")
MarginLeftOf(i) == IF i = "a" THEN Str("") ELSE Str("10px")
IndexOf(i) == IF i = "a" THEN Num(1) ELSE Str("2")

\* All prop records the parent can pass to instance i.
PropsOf(i) ==
  {[id |-> IdOf(i), value |-> ValueOf(i), marginLeft |-> MarginLeftOf(i),
    type |-> t, index |-> IndexOf(i), bus |-> b, prevStep |-> p, nextStep |-> n] :
      t \in Types, b \in {Null, Bus}, p \in {Null, PrevOf(i)}, n \in {Null, NextOf(i)}}

(* -------------------------------- state -------------------------------- *)
VARIABLES
  props,     \* props[i]: the props of instance i, set by the parent
  rendered,  \* rendered[i]: what the template of instance i last rendered
  channel,   \* the event bus object: its listeners and the events emitted on it
  clicks,    \* history: the handler invocations so far, in order
  error      \* TRUE once a handler or a computed property has thrown

vars == <<props, rendered, channel, clicks, error>>

\* The listeners the owner of the bus registered; the component registers none.
OwnerListeners == {"jpmToPrevReport", "jpmToNextReport"}

NotRendered ==
  [shown |-> FALSE, color |-> "", textColor |-> "", stepId |-> Null,
   type |-> Null, marginLeft |-> Null, index |-> Null, value |-> Null,
   prevBtn |-> FALSE, nextBtn |-> FALSE]

Init ==
  /\ props \in {f \in [Instances -> UNION {PropsOf(i) : i \in Instances}] :
                  \A i \in Instances : f[i] \in PropsOf(i)}
  /\ rendered = [i \in Instances |-> NotRendered]
  /\ channel = [listeners |-> OwnerListeners, destroyed |-> FALSE, emitted |-> <<>>]
  /\ clicks = <<>>
  /\ error = FALSE

(* --------------------------- computed properties ----------------------- *)
\* Mutant of color: once an event is on the bus the default is returned.
colorAfterNavigation(self) ==
  LET type == props[self].type IN
  IF channel.emitted /= <<>> THEN "#bfdfe9"
  ELSE IF type = Str("error") THEN "#f2dede"
  ELSE IF type = Str("fixit") THEN "#fcf8e3"
  ELSE IF type = Str("macro") THEN "#d7dac2"
  ELSE IF type = Str("note") THEN "#d7d7d7"
  ELSE "#bfdfe9"

\* Mutant of color: the category name is matched without regard to case.
colorIgnoringCase(self) ==
  LET type == props[self].type IN
  IF type = Str("error") \/ type = Str("Error") THEN "#f2dede"
  ELSE IF type = Str("fixit") THEN "#fcf8e3"
  ELSE IF type = Str("macro") THEN "#d7dac2"
  ELSE IF type = Str("note") THEN "#d7d7d7"
  ELSE "#bfdfe9"

\* computed.color: switch (this.type) with strict equality on the case labels.
color(self) ==
  LET type == props[self].type IN
  IF type = Str("error") THEN "#f2dede"
  ELSE IF type = Str("fixit") THEN "#fcf8e3"
  ELSE IF type = Str("macro") THEN "#d7dac2"
  ELSE IF type = Str("note") THEN "#d7d7d7"
  ELSE "#bfdfe9"

\* Mutant of textColor: the macro case returns the fixit row's text colour.
textColorMacroAsFixit(self) ==
  LET type == props[self].type IN
  IF type = Str("error") THEN "#a94442"
  ELSE IF type = Str("fixit") THEN "#8a6d3b"
  ELSE IF type = Str("macro") THEN "#8a6d3b"
  ELSE IF type = Str("note") THEN "#4f5c6d"
  ELSE "#00546f"

\* computed.textColor
textColor(self) ==
  LET type == props[self].type IN
  IF type = Str("error") THEN "#a94442"
  ELSE IF type = Str("fixit") THEN "#8a6d3b"
  ELSE IF type = Str("macro") THEN "#4f5c6d"
  ELSE IF type = Str("note") THEN "#4f5c6d"
  ELSE "#00546f"

(* -------------------------------- template ----------------------------- *)
\* Mutant of nextBtnRendered: the button is hidden when there is no bus.
nextBtnRenderedWithBus(self) ==
  Truthy(props[self].nextStep) /\ Truthy(props[self].bus)

\* Mutant of prevBtnRendered: the button also waits for the bus.
prevBtnRenderedWithBus(self) ==
  Truthy(props[self].prevStep) /\ Truthy(props[self].bus)

\* <v-btn v-if="prevStep"> and <v-btn v-if="nextStep">
prevBtnRendered(self) == Truthy(props[self].prevStep)
nextBtnRendered(self) == Truthy(props[self].nextStep)

\* One evaluation of the template of instance self.
Render(self) ==
  /\ rendered' = [rendered EXCEPT ![self] =
       [shown |-> TRUE, color |-> color(self), textColor |-> textColor(self),
        stepId |-> props[self].id, type |-> props[self].type,
        marginLeft |-> props[self].marginLeft, index |-> props[self].index,
        value |-> props[self].value,
        prevBtn |-> prevBtnRendered(self), nextBtn |-> nextBtnRendered(self)]]
  /\ UNCHANGED <<props, channel, clicks, error>>

(* -------------------------------- methods ------------------------------ *)
\* Mutant of emit: the newest event is put before the earlier ones.
emitNewestFirst(bus, event, arg) ==
  IF bus = Null
    THEN error' = TRUE /\ UNCHANGED channel
    ELSE /\ channel' = [channel EXCEPT !.emitted = <<[name |-> event, arg |-> arg]>> \o @]
         /\ UNCHANGED error

\* bus.$emit(event, arg): a TypeError when bus is null, else the event is
\* delivered; listeners and the bus itself are left as they are.
emit(bus, event, arg) ==
  IF bus = Null
    THEN error' = TRUE /\ UNCHANGED channel
    ELSE /\ channel' = [channel EXCEPT !.emitted = Append(@, [name |-> event, arg |-> arg])]
         /\ UNCHANGED error

\* Mutant of showPrevReport: the name of the other direction's event is used.
showPrevReportEmitsNext(self) ==
  /\ IF Truthy(props[self].prevStep) /\ Truthy(props[self].bus)
       THEN emit(props[self].bus, "jpmToNextReport", props[self].prevStep)
       ELSE UNCHANGED <<channel, error>>
  /\ UNCHANGED <<props, rendered>>

\* Mutant of showPrevReport: the wrong neighbour is sent.
showPrevReportSendsNext(self) ==
  /\ IF Truthy(props[self].prevStep) /\ Truthy(props[self].bus)
       THEN emit(props[self].bus, "jpmToPrevReport", props[self].nextStep)
       ELSE UNCHANGED <<channel, error>>
  /\ UNCHANGED <<props, rendered>>

\* Mutant of showPrevReport: the bus is not tested before it is used.
showPrevReportNoBusTest(self) ==
  /\ IF Truthy(props[self].prevStep)
       THEN emit(props[self].bus, "jpmToPrevReport", props[self].prevStep)
       ELSE UNCHANGED <<channel, error>>
  /\ UNCHANGED <<props, rendered>>

\* methods.showPrevReport
showPrevReport(self) ==
  /\ IF Truthy(props[self].prevStep) /\ Truthy(props[self].bus)
       THEN emit(props[self].bus, "jpmToPrevReport", props[self].prevStep)
       ELSE UNCHANGED <<channel, error>>
  /\ UNCHANGED <<props, rendered>>

\* Mutant of showNextReport: the event of the other direction is emitted.
showNextReportEmitsPrev(self) ==
  /\ IF Truthy(props[self].nextStep) /\ Truthy(props[self].bus)
       THEN emit(props[self].bus, "jpmToPrevReport", props[self].nextStep)
       ELSE UNCHANGED <<channel, error>>
  /\ UNCHANGED <<props, rendered>>

\* Mutant of showNextReport: the step sent is then cleared on the instance.
showNextReportClearsStep(self) ==
  /\ IF Truthy(props[self].nextStep) /\ Truthy(props[self].bus)
       THEN emit(props[self].bus, "jpmToNextReport", props[self].nextStep)
       ELSE UNCHANGED <<channel, error>>
  /\ props' = [props EXCEPT ![self].nextStep = Null]
  /\ UNCHANGED rendered

\* Mutant of showNextReport: the neighbour is not tested before it is sent.
showNextReportNoStepTest(self) ==
  /\ IF Truthy(props[self].bus)
       THEN emit(props[self].bus, "jpmToNextReport", props[self].nextStep)
       ELSE UNCHANGED <<channel, error>>
  /\ UNCHANGED <<props, rendered>>

\* methods.showNextReport
showNextReport(self) ==
  /\ IF Truthy(props[self].nextStep) /\ Truthy(props[self].bus)
       THEN emit(props[self].bus, "jpmToNextReport", props[self].nextStep)
       ELSE UNCHANGED <<channel, error>>
  /\ UNCHANGED <<props, rendered>>

\* An invocation of a handler (by @click or directly), run to completion.
Click(i, d) == [inst |-> i, dir |-> d]

InvokePrev(self) ==
  /\ Len(clicks) < MaxClicks
  /\ clicks' = Append(clicks, Click(self, "prev"))
  /\ showPrevReport(self)

InvokeNext(self) ==
  /\ Len(clicks) < MaxClicks
  /\ clicks' = Append(clicks, Click(self, "next"))
  /\ showNextReport(self)

Next ==
  \/ \E self \in Instances : Render(self)
  \/ \E self \in Instances : InvokePrev(self)
  \/ \E self \in Instances : InvokeNext(self)

Spec == Init /\ [][Next]_vars

(* ------------------------------ properties ----------------------------- *)
\* The four categories with a row of their own in the style table.
KnownTypes == {Str("error"), Str("fixit"), Str("macro"), Str("note")}

\* The style table, written out row by row.
StyleRow(t) ==
  IF t = Str("error") THEN <<"#f2dede", "#a94442">>
  ELSE IF t = Str("fixit") THEN <<"#fcf8e3", "#8a6d3b">>
  ELSE IF t = Str("macro") THEN <<"#d7dac2", "#4f5c6d">>
  ELSE <<"#d7d7d7", "#4f5c6d">>

DefaultRow == <<"#bfdfe9", "#00546f">>

StyleOf(i) == <<rendered[i].color, rendered[i].textColor>>

\* C1: a rendered instance whose type is error, fixit, macro or note shows
\* exactly the (background, text) pair of that category's table row, so the
\* two separately computed colours always come from the same row.
C1_KnownCategoryStyle ==
  \A i \in Instances :
    (rendered[i].shown /\ props[i].type \in KnownTypes) =>
      StyleOf(i) = StyleRow(props[i].type)

\* Every known category has been rendered with its row at once or in turn:
\* here both instances are rendered, with macro and with note.
C1_Witness ==
  /\ rendered["a"].shown /\ props["a"].type = Str("macro")
  /\ rendered["b"].shown /\ props["b"].type = Str("note")
  /\ StyleOf("a") = <<"#d7dac2", "#4f5c6d">>
  /\ StyleOf("b") = <<"#d7d7d7", "#4f5c6d">>

\* C2: a rendered instance whose type is anything else (null, the empty
\* string, "Error", an unknown string) shows the default pair, and rendering
\* it has thrown nothing.
C2_UnknownCategoryDefault ==
  \A i \in Instances :
    (rendered[i].shown /\ props[i].type \notin KnownTypes) =>
      StyleOf(i) = DefaultRow /\ ~error

C2_Witness ==
  /\ rendered["a"].shown /\ props["a"].type = Str("Error")
  /\ rendered["b"].shown /\ props["b"].type = Null
  /\ StyleOf("a") = DefaultRow /\ StyleOf("b") = DefaultRow

\* The events of the source read as navigate-to-step events: jpmToPrevReport
\* carrying x is {target: x, direction: backward}, jpmToNextReport carrying x
\* is {target: x, direction: forward}.
NavEvent(e) ==
  [target |-> e.arg,
   direction |-> IF e.name = "jpmToPrevReport" THEN "backward" ELSE "forward"]

NavLog(log) == [k \in 1..Len(log) |-> NavEvent(log[k])]

IsPrefix(s, t) == Len(s) <= Len(t) /\ SubSeq(t, 1, Len(s)) = s

\* This step is an invocation of the handler of direction d on instance i.
Invoked(i, d) == clicks' = Append(clicks, Click(i, d))

\* The events this step published on the channel, as navigate-to-step events.
Published ==
  NavLog(SubSeq(channel'.emitted, Len(channel.emitted) + 1, Len(channel'.emitted)))

LastClick == clicks[Len(clicks)]
LastEvent == NavEvent(channel.emitted[Len(channel.emitted)])

\* C3: invoking "previous" on an instance whose prevStep and bus are both
\* present publishes exactly one event, backward and targeting prevStep (so
\* none that is forward), whether or not nextStep is present.
C3_PrevPublishesOneBackward ==
  [][\A i \in Instances :
       (Invoked(i, "prev") /\ props[i].prevStep /= Null /\ props[i].bus /= Null) =>
         /\ IsPrefix(channel.emitted, channel'.emitted)
         /\ Published = <<[target |-> props[i].prevStep, direction |-> "backward"]>>
         /\ ~error']_vars

C3_Witness ==
  /\ Len(clicks) = 1 /\ LastClick = Click("b", "prev")
  /\ props["b"].prevStep /= Null /\ props["b"].nextStep /= Null /\ props["b"].bus /= Null
  /\ Len(channel.emitted) = 1
  /\ LastEvent = [target |-> Obj("s1"), direction |-> "backward"]

\* C4: invoking "next" on an instance whose nextStep and bus are both present
\* publishes exactly one event, forward and targeting nextStep (so none that
\* is backward), whether or not prevStep is present.
C4_NextPublishesOneForward ==
  [][\A i \in Instances :
       (Invoked(i, "next") /\ props[i].nextStep /= Null /\ props[i].bus /= Null) =>
         /\ IsPrefix(channel.emitted, channel'.emitted)
         /\ Published = <<[target |-> props[i].nextStep, direction |-> "forward"]>>
         /\ ~error']_vars

\* The end-to-end scenario: step s1 of category error, no previous neighbour,
\* next neighbour s2, a channel; one click on next.
C4_Witness ==
  /\ props["a"].id = Str("s1") /\ props["a"].type = Str("error")
  /\ props["a"].prevStep = Null /\ props["a"].nextStep = Obj("s2")
  /\ props["a"].bus = Bus
  /\ clicks = <<Click("a", "next")>>
  /\ NavLog(channel.emitted) = <<[target |-> Obj("s2"), direction |-> "forward"]>>

\* C5: invoking either handler on an instance whose bus is null publishes
\* nothing and throws nothing, whatever its neighbours are.
C5_NoChannelNoPublish ==
  [][\A i \in Instances : \A d \in {"prev", "next"} :
       (Invoked(i, d) /\ props[i].bus = Null) =>
         channel' = channel /\ ~error']_vars

C5_Witness ==
  /\ Len(clicks) = 2
  /\ clicks[1] = Click("a", "prev") /\ clicks[2] = Click("a", "next")
  /\ props["a"].bus = Null
  /\ props["a"].prevStep /= Null /\ props["a"].nextStep /= Null
  /\ channel.emitted = <<>> /\ ~error

\* C6: invoking a handler on an instance whose neighbour in that direction is
\* null publishes nothing, even with the bus and the other neighbour present.
C6_NoNeighborNoPublish ==
  [][\A i \in Instances :
       /\ (Invoked(i, "prev") /\ props[i].prevStep = Null) => channel' = channel
       /\ (Invoked(i, "next") /\ props[i].nextStep = Null) => channel' = channel]_vars

C6_Witness ==
  /\ Len(clicks) = 2
  /\ clicks[1] = Click("a", "prev") /\ clicks[2] = Click("b", "next")
  /\ props["a"].prevStep = Null /\ props["a"].nextStep /= Null /\ props["a"].bus /= Null
  /\ props["b"].nextStep = Null /\ props["b"].prevStep /= Null /\ props["b"].bus /= Null
  /\ channel.emitted = <<>>

\* C7: a rendered instance shows its previous button exactly when prevStep is
\* non-null and its next button exactly when nextStep is non-null.
C7_ControlIffNeighbor ==
  \A i \in Instances :
    rendered[i].shown =>
      /\ rendered[i].prevBtn <=> (props[i].prevStep /= Null)
      /\ rendered[i].nextBtn <=> (props[i].nextStep /= Null)

C7_Witness ==
  /\ rendered["a"].shown
  /\ props["a"].prevStep = Null /\ props["a"].nextStep = Obj("s2")
  /\ ~rendered["a"].prevBtn /\ rendered["a"].nextBtn

\* C8: no step changes the props of any instance (id, value, type, index,
\* marginLeft, prevStep, nextStep, bus); on the bus the listeners stay as the
\* owner registered them, the bus is not destroyed, and the events already
\* emitted stay, so that emitted events are all a step adds.
C8_InputsUnchanged ==
  [][/\ props' = props
     /\ channel'.listeners = channel.listeners
     /\ channel'.destroyed = channel.destroyed
     /\ IsPrefix(channel.emitted, channel'.emitted)]_vars

\* Both instances rendered, two handlers run, an event published.
C8_Witness ==
  /\ \A i \in Instances : rendered[i].shown
  /\ clicks = <<Click("a", "next"), Click("b", "prev")>>
  /\ Len(channel.emitted) = 2
  /\ props["a"].nextStep = Obj("s2") /\ props["b"].prevStep = Obj("s1")
  /\ channel.listeners = OwnerListeners /\ ~channel.destroyed

\* C9: the style an instance is rendered with is that of every rendering,
\* earlier or of the same step, of an instance with the same type: it is the
\* same when the instance is rendered again, when the other props (id, value,
\* index, marginLeft, neighbours, bus) differ, and when handlers ran between.
C9_StyleDependsOnTypeOnly ==
  [][\A i, j \in Instances :
       (rendered[i].shown /\ rendered'[j].shown /\ props[i].type = props'[j].type) =>
         <<rendered'[j].color, rendered'[j].textColor>> = StyleOf(i)]_vars

\* Both instances rendered with the same type and every other prop
\* different, in a behaviour where two handlers have published.
C9_Witness ==
  /\ rendered["a"].shown /\ rendered["b"].shown
  /\ props["a"].type = Str("fixit") /\ props["b"].type = Str("fixit")
  /\ props["a"].bus = Null /\ props["b"].bus = Bus
  /\ props["a"].prevStep = Null /\ props["b"].prevStep /= Null
  /\ Len(clicks) = 2 /\ Len(channel.emitted) = 2
  /\ StyleOf("a") = StyleOf("b")

\* The events a sequence of invocations is to publish: for each invocation in
\* order, one event with that instance's neighbour of that direction if the
\* neighbour and the bus of the instance are both present, else none.
RECURSIVE ExpectedLog(_)
ExpectedLog(cs) ==
  IF cs = <<>> THEN <<>>
  ELSE LET c == cs[Len(cs)]
           p == props[c.inst]
           n == IF c.dir = "prev" THEN p.prevStep ELSE p.nextStep
           d == IF c.dir = "prev" THEN "backward" ELSE "forward"
       IN ExpectedLog(SubSeq(cs, 1, Len(cs) - 1)) \o
            (IF n /= Null /\ p.bus /= Null
               THEN <<[target |-> n, direction |-> d]>>
               ELSE <<>>)

\* C10: with the instances sharing the bus and their handlers invoked in any
\* order, the bus holds, in invocation order, exactly one event per invocation
\* whose neighbour and bus were present, with that instance's neighbour and
\* direction, and nothing for the others; nothing has thrown.
C10_LogMatchesClicks ==
  NavLog(channel.emitted) = ExpectedLog(clicks) /\ ~error

\* b's next then a's prev, both publishing on the shared bus.
C10_Witness ==
  /\ clicks = <<Click("b", "next"), Click("a", "prev")>>
  /\ props["a"].bus = Bus /\ props["b"].bus = Bus
  /\ NavLog(channel.emitted) =
       <<[target |-> Obj("s3"), direction |-> "forward"],
         [target |-> Obj("s0"), direction |-> "backward"]>>

(* ---------------- the single-event design of the specification --------- *)
\* The unified handler: one invocation of direction d ("backward" or
\* "forward") on an instance with props p, given the events published so
\* far; it publishes navigate-to-step with {target, direction} when the
\* neighbour of that direction and the channel are both present.
navigateToStep(log, p, d) ==
  LET neighbor == IF d = "backward" THEN p.prevStep ELSE p.nextStep IN
  IF neighbor /= Null /\ p.bus /= Null
    THEN Append(log, [name |-> "navigate-to-step",
                      payload |-> [target |-> neighbor, direction |-> d]])
    ELSE log

\* The unified design run on a sequence of invocations, from an empty channel.
RECURSIVE UnifiedRun(_)
UnifiedRun(cs) ==
  IF cs = <<>> THEN <<>>
  ELSE LET c == cs[Len(cs)] IN
       navigateToStep(UnifiedRun(SubSeq(cs, 1, Len(cs) - 1)), props[c.inst],
                      IF c.dir = "prev" THEN "backward" ELSE "forward")

\* A navigate-to-step event written back as the source's event of that
\* direction.
SourceEvent(u) ==
  [name |-> IF u.payload.direction = "backward"
              THEN "jpmToPrevReport" ELSE "jpmToNextReport",
   arg |-> u.payload.target]

\* C11: after every sequence of invocations, on every combination of present
\* and absent neighbours and bus, the source's events mapped to
\* {target, direction} are the payloads the single-event design publishes for
\* the same invocations, one for one and in order; and mapped back, the
\* single-event design's events are the source's.
C11_TwoEventsEquivalentToOne ==
  LET u == UnifiedRun(clicks) IN
  /\ Len(u) = Len(channel.emitted)
  /\ \A k \in 1..Len(u) :
       /\ u[k].name = "navigate-to-step"
       /\ NavEvent(channel.emitted[k]) = u[k].payload
       /\ SourceEvent(u[k]) = channel.emitted[k]

\* Both source events emitted by one instance, previous then next.
C11_Witness ==
  /\ clicks = <<Click("a", "prev"), Click("a", "next")>>
  /\ channel.emitted =
       <<[name |-> "jpmToPrevReport", arg |-> Obj("s0")],
         [name |-> "jpmToNextReport", arg |-> Obj("s2")]>>
  /\ Len(UnifiedRun(clicks)) = 2
  /\ UnifiedRun(clicks)[2].payload = [target |-> Obj("s2"), direction |-> "forward"]

\* C12: whether a button is rendered does not depend on the bus: with the
\* neighbour of a direction present and the bus null, a rendered instance
\* still shows that direction's button; and invoking the handler of a shown
\* button on an instance whose bus is null publishes nothing, throws nothing
\* and changes neither the props nor what is rendered.
C12_RenderedControlInertWithoutChannel ==
  [][\A i \in Instances :
       /\ (rendered'[i].shown /\ props'[i].bus = Null) =>
            /\ (props'[i].prevStep /= Null => rendered'[i].prevBtn)
            /\ (props'[i].nextStep /= Null => rendered'[i].nextBtn)
       /\ (props[i].bus = Null /\
             \/ (rendered[i].prevBtn /\ Invoked(i, "prev"))
             \/ (rendered[i].nextBtn /\ Invoked(i, "next"))) =>
            /\ channel' = channel /\ ~error'
            /\ props' = props /\ rendered' = rendered]_vars

\* Instance b, without a bus, shows both buttons; its next button was clicked
\* and nothing is on the bus.
C12_Witness ==
  /\ props["b"].bus = Null
  /\ props["b"].prevStep /= Null /\ props["b"].nextStep /= Null
  /\ rendered["b"].shown /\ rendered["b"].prevBtn /\ rendered["b"].nextBtn
  /\ clicks = <<Click("b", "next")>>
  /\ channel.emitted = <<>> /\ ~error

====
